---------------------------- MODULE Spec2Model ----------------------------
(***************************************************************************)
(* A model of the mealgram food-diary bot (main.py) and of its /time       *)
(* resolver (cmd_time.py).                                                 *)
(*                                                                         *)
(* A text is a sequence of characters; a character is written as a short   *)
(* string.  Besides ASCII the alphabet holds the non-ASCII characters that *)
(* Python's str patterns treat specially: the decimal digits U+0660 and    *)
(* U+0668 (ARABIC-INDIC DIGIT ZERO / EIGHT), which \d matches and int()    *)
(* parses, the KELVIN SIGN U+212A, which matches k under re.I, and the     *)
(* NO-BREAK SPACE U+00A0, which \s matches and str.strip() removes.        *)
(***************************************************************************)
EXTENDS Integers, Sequences, FiniteSets, TLC

VARIABLES
    state,      \* main.py `state`: user id -> PendingEntry (a dict: partial)
    log,        \* the lines of JSONL_PATH, one record per line
    now,        \* the wall clock utc_now() reads, in seconds
    photos,     \* the number of files downloaded into MEDIA_DIR so far
    reply,      \* the last reply_text sent by a handler
    updates,    \* the number of updates run_polling has dispatched so far
    GEMINI_API_KEY, \* whether the environment sets the estimator's key
    clock,      \* cmd_time.py: datetime.now(utz), in sub-second ticks (local wall time)
    timeCall,   \* cmd_time.py: the arguments of the handle_time_command call
    timeResult, \* cmd_time.py: what the call returned or the error it raised,
                \* <<>> until it has run
    tasks       \* the handler coroutines of the updates, in the order of the
                \* updates, when the application runs them concurrently

vars == <<state, log, now, photos, reply, updates, GEMINI_API_KEY, clock, timeCall, timeResult,
          tasks>>

timeVars == <<clock, timeCall, timeResult>>

-----------------------------------------------------------------------------
(* Characters *)

AsciiDigits == {"0", "1", "2", "3", "4", "5", "6", "7", "8", "9"}

\* Decimal digits (Unicode category Nd) outside ASCII.
UnicodeDigits == {"U+0660", "U+0668"}

\* What \d matches in a str pattern compiled without re.ASCII.
IsDigit(c) == c \in AsciiDigits \cup UnicodeDigits

\* What \s matches, and what str.strip() removes.
IsSpace(c) == c \in {" ", "NL", "U+00A0"}

\* The digit value int() gives a decimal digit character.
DigitValue(c) ==
    CASE c = "0" -> 0 [] c = "1" -> 1 [] c = "2" -> 2 [] c = "3" -> 3
      [] c = "4" -> 4 [] c = "5" -> 5 [] c = "6" -> 6 [] c = "7" -> 7
      [] c = "8" -> 8 [] c = "9" -> 9
      [] c = "U+0660" -> 0 [] c = "U+0668" -> 8

\* Case folding of re.I on a str pattern: Unicode-aware, so the Kelvin sign
\* folds to k.
Fold(c) ==
    CASE c = "C" -> "c" [] c = "A" -> "a" [] c = "L" -> "l" [] c = "K" -> "k"
      [] c = "U+212A" -> "k"
      [] OTHER -> c

-----------------------------------------------------------------------------
(* Pure helpers of main.py *)

\* The length of the longest run of whitespace that starts at s[from].
RECURSIVE SpaceRun(_, _)
SpaceRun(s, from) ==
    IF from <= Len(s) /\ IsSpace(s[from]) THEN 1 + SpaceRun(s, from + 1) ELSE 0

\* The length of the longest run of whitespace that ends at s[to].
RECURSIVE SpaceRunBack(_, _)
SpaceRunBack(s, to) ==
    IF to >= 1 /\ IsSpace(s[to]) THEN 1 + SpaceRunBack(s, to - 1) ELSE 0

\* str.strip()
Strip(s) ==
    IF SpaceRun(s, 1) = Len(s) THEN <<>>
    ELSE SubSeq(s, SpaceRun(s, 1) + 1, Len(s) - SpaceRunBack(s, Len(s)))

\* The quantifier bounds of \d{2,5} in CAL_RE.
MinDigits == 2

\* The upper bound of \d{2,6}.
MaxDigits_Six == 5 + 1

MaxDigits == 5

\* The length of the longest run of \d characters that starts at s[from].
RECURSIVE DigitRun(_, _)
DigitRun(s, from) ==
    IF from <= Len(s) /\ IsDigit(s[from]) THEN 1 + DigitRun(s, from + 1) ELSE 0

\* (k?cal)? under re.I at s[from]: the length it matches there, k?cal when it
\* can and nothing otherwise.
SuffixLen(s, from) ==
    LET at(i) == IF from + i <= Len(s) THEN Fold(s[from + i]) ELSE "" IN
    IF at(0) = "k" /\ at(1) = "c" /\ at(2) = "a" /\ at(3) = "l" THEN 4
    ELSE IF at(0) = "c" /\ at(1) = "a" /\ at(2) = "l" THEN 3
    ELSE 0

\* CAL_RE.match(text) for ^\s*(\d{2,5})\s*(k?cal)?\s*$: the pattern's parts
\* are over disjoint character classes, so the only split of the text that can
\* match takes each run whole.  The result is the match object, with the
\* digits of group 1 at text[from..to], or None.
None == [matched |-> FALSE, from |-> 0, to |-> 0]

CAL_RE_match(text) ==
    LET a == SpaceRun(text, 1)
        d == DigitRun(text, a + 1)
        b == SpaceRun(text, a + d + 1)
        e == SuffixLen(text, a + d + b + 1)
        c == SpaceRun(text, a + d + b + e + 1)
    IN  IF d \in MinDigits..MaxDigits /\ a + d + b + e + c = Len(text)
        THEN [matched |-> TRUE, from |-> a + 1, to |-> a + d]
        ELSE None

\* m.group(1)
Group1(text, m) == SubSeq(text, m.from, m.to)

\* int(m.group(1))
ParseInt(ds) ==
    LET value[i \in 0..Len(ds)] ==
            IF i = 0 THEN 0 ELSE value[i - 1] * 10 + DigitValue(ds[i])
    IN  value[Len(ds)]

\* "\n".join(parts), from parts[i] on
RECURSIVE JoinFrom(_, _)
JoinFrom(parts, i) ==
    IF i > Len(parts) THEN <<>>
    ELSE IF i = Len(parts) THEN parts[i]
    ELSE parts[i] \o <<"NL">> \o JoinFrom(parts, i + 1)

\* "\n".join(parts)
JoinNL(parts) == JoinFrom(parts, 1)

\* (t for t in self.texts if t)
NonEmpty(texts) == SelectSeq(texts, LAMBDA t : t # <<>>)

\* "".join(parts), from parts[i] on
RECURSIVE ConcatFrom(_, _)
ConcatFrom(parts, i) ==
    IF i > Len(parts) THEN <<>> ELSE parts[i] \o ConcatFrom(parts, i + 1)

\* Description with the lines run together, the separator lost.
Description_NoSeparator(pe) == Strip(ConcatFrom(NonEmpty(pe.texts), 1))

\* PendingEntry.description
Description(pe) == Strip(JoinNL(NonEmpty(pe.texts)))

SecondsPerMinute == 60
SecondsPerDay == 86400

\* fmt_utc_human: "%Y-%m-%d %H:%M UTC", the date and the minute of the day;
\* the seconds are dropped.
fmt_utc_human(dt) ==
    [date |-> dt \div SecondsPerDay,
     hm   |-> (dt % SecondsPerDay) \div SecondsPerMinute]

\* PendingEntry(started_at=utc_now())
NewEntry == [started_at |-> now, texts |-> <<>>, images |-> <<>>]

\* get_or_create_entry putting a new entry in the store whether or not the
\* user has one.
get_or_create_entry_Replaces(uid) ==
    [u \in DOMAIN state \cup {uid} |-> IF u = uid THEN NewEntry ELSE state[u]]

\* get_or_create_entry: the store after the call (the entry is state[uid]).
get_or_create_entry(uid) ==
    IF uid \notin DOMAIN state
    THEN [u \in DOMAIN state \cup {uid} |-> IF u = uid THEN NewEntry ELSE state[u]]
    ELSE state

\* The entry read and left in the store, as state.get(uid) would.
Pop_KeepsEntry(uid) == state

\* Pop emptying the whole store, as state.clear() would.
Pop_ClearsAll(uid) == [u \in {} |-> 0]

\* state.pop(uid, None)
Pop(uid) == [u \in DOMAIN state \ {uid} |-> state[u]]

\* sent_dt = utc_now(): the time of the closing message.
SentOf_Now(pe) == now

\* sent_dt = pe.started_at
SentOf(pe) == pe.started_at

\* save_jsonl opening the file with "w": the line replaces the file.
save_jsonl_Overwrites(sent_dt, description, images, calories) ==
    <<[sent        |-> fmt_utc_human(sent_dt),
       description |-> description,
       images      |-> images,
       calories    |-> calories]>>

\* save_jsonl: one line appended to the file.
save_jsonl(sent_dt, description, images, calories) ==
    Append(log, [sent        |-> fmt_utc_human(sent_dt),
                 description |-> description,
                 images      |-> images,
                 calories    |-> calories])

\* len(desc.splitlines()) if desc else 0, for a description without a
\* trailing line break: one more than its line breaks.
LineCount(desc) ==
    IF desc = <<>> THEN 0
    ELSE 1 + Cardinality({i \in 1..Len(desc) : desc[i] = "NL"})

-----------------------------------------------------------------------------
(* cmd_report's aggregation *)

\* daily_calories[date]: the calories of the entries sent on that date, summed.
DailyCalories(entries, date) ==
    LET total[i \in 0..Len(entries)] ==
            IF i = 0 THEN 0
            ELSE total[i - 1]
                 + (IF entries[i].sent.date = date THEN entries[i].calories ELSE 0)
    IN  total[Len(entries)]

\* sorted(keys) without reverse=True: the key at place i has i - 1 keys below it.
SortedReverse_Ascending(S) ==
    [i \in 1..Cardinality(S) |->
        CHOOSE x \in S : Cardinality({y \in S : y < x}) = i - 1]

\* sorted(keys, reverse=True): the key at place i has i - 1 keys above it.
SortedReverse(S) ==
    [i \in 1..Cardinality(S) |->
        CHOOSE x \in S : Cardinality({y \in S : y > x}) = i - 1]

\* The 7 of sorted_dates[:7].
ReportDays == 7

\* sorted_dates[:7]
Latest(sorted_dates) ==
    SubSeq(sorted_dates, 1, IF Len(sorted_dates) < ReportDays THEN Len(sorted_dates) ELSE ReportDays)

\* The lines of the report after its title, one <<date, calories>> per day.
ReportLines(entries) ==
    LET keys == {entries[i].sent.date : i \in 1..Len(entries)}
        latest_7_dates == Latest(SortedReverse(keys))
    IN  [i \in 1..Len(latest_7_dates) |->
            <<latest_7_dates[i], DailyCalories(entries, latest_7_dates[i])>>]

-----------------------------------------------------------------------------
(* Handlers of main.py *)

Users == {101, 202}

\* The closing message of a user without an entry, answered by opening an
\* entry for the user.
NoPendingEntry_OpensEntry(uid) ==
    /\ reply' = <<"No pending entry. Start by sending a message or a photo.">>
    /\ state' = get_or_create_entry(uid)
    /\ UNCHANGED log

\* handle_text when state.get(uid) is None: the reply, and the return.
NoPendingEntry(uid) ==
    /\ reply' = <<"No pending entry. Start by sending a message or a photo.">>
    /\ UNCHANGED <<state, log>>

\* handle_text, for update.message.text = raw from user uid.
handle_text(uid, raw) ==
    /\ UNCHANGED <<now, photos, GEMINI_API_KEY, timeVars>>
    /\ IF raw = <<>>
       THEN UNCHANGED <<state, log, reply>>
       ELSE \E text \in {Strip(raw)} : \E m \in {CAL_RE_match(text)} :
            IF m.matched
            THEN LET kcal == ParseInt(Group1(text, m)) IN
                 IF uid \notin DOMAIN state
                 THEN NoPendingEntry(uid)
                 ELSE LET pe      == state[uid]
                          desc    == Description(pe)
                          imgs    == pe.images
                          sent_dt == SentOf(pe)
                      IN  /\ log' = save_jsonl(sent_dt, desc, imgs, kcal)
                          /\ state' = Pop(uid)
                          /\ reply' = <<"Saved", fmt_utc_human(sent_dt), kcal,
                                        LineCount(desc), Len(imgs)>>
            ELSE LET st == get_or_create_entry(uid) IN
                 /\ state' = [st EXCEPT ![uid].texts = Append(@, text)]
                 /\ reply' = <<"Noted.">>
                 /\ UNCHANGED log

\* handle_photo: the download names a new file; its path joins the entry.
handle_photo(uid) ==
    LET fpath == photos + 1
        st    == get_or_create_entry(uid)
    IN  /\ photos' = photos + 1
        /\ state' = [st EXCEPT ![uid].images = Append(@, fpath)]
        /\ reply' = <<"Photo added.">>
        /\ UNCHANGED <<log, now, GEMINI_API_KEY, timeVars>>

\* cmd_start
cmd_start ==
    /\ reply' = <<"Food diary ready.">>
    /\ UNCHANGED <<state, log, now, photos, GEMINI_API_KEY, timeVars>>

\* cmd_help
cmd_help ==
    /\ reply' = <<"Usage:">>
    /\ UNCHANGED <<state, log, now, photos, GEMINI_API_KEY, timeVars>>

\* cmd_status reading the entry with get_or_create_entry.
cmd_status_OpensEntry(uid) ==
    /\ state' = get_or_create_entry(uid)
    /\ reply' = <<"Pending since", fmt_utc_human(state'[uid].started_at),
                  Len(state'[uid].texts), Len(state'[uid].images)>>
    /\ UNCHANGED <<log, now, photos, GEMINI_API_KEY, timeVars>>

\* cmd_status
cmd_status(uid) ==
    /\ reply' = IF uid \notin DOMAIN state
                THEN <<"No pending entry.">>
                ELSE <<"Pending since", fmt_utc_human(state[uid].started_at),
                       Len(state[uid].texts), Len(state[uid].images)>>
    /\ UNCHANGED <<state, log, now, photos, GEMINI_API_KEY, timeVars>>

\* cmd_discard reading the entry with state.get: it stays in the store.
cmd_discard_KeepsEntry(uid) ==
    /\ reply' = IF uid \notin DOMAIN state
                THEN <<"Nothing to discard.">>
                ELSE <<"Pending entry discarded.">>
    /\ UNCHANGED <<state, log, now, photos, GEMINI_API_KEY, timeVars>>

\* cmd_discard
cmd_discard(uid) ==
    /\ state' = Pop(uid)
    /\ reply' = IF uid \notin DOMAIN state
                THEN <<"Nothing to discard.">>
                ELSE <<"Pending entry discarded.">>
    /\ UNCHANGED <<log, now, photos, GEMINI_API_KEY, timeVars>>

\* cmd_report
cmd_report ==
    /\ reply' = IF log = <<>>
                THEN <<"No entries found.">>
                ELSE <<"Total calories for the last 7 logged days:", ReportLines(log)>>
    /\ UNCHANGED <<state, log, now, photos, GEMINI_API_KEY, timeVars>>

\* What estimate_calories can do: raise, or return the first number of the
\* model's answer.
EstimatorOutcomes == {[raises |-> TRUE, calories |-> 0], [raises |-> FALSE, calories |-> 850]}

\* cmd_cal closing the entry with the estimate.
cmd_cal_SavesEstimate(uid, outcome) ==
    /\ UNCHANGED <<now, photos, GEMINI_API_KEY, timeVars>>
    /\ IF uid \in DOMAIN state /\ GEMINI_API_KEY /\ ~outcome.raises
       THEN /\ log' = save_jsonl(SentOf(state[uid]), Description(state[uid]),
                                 state[uid].images, outcome.calories)
            /\ state' = Pop(uid)
            /\ reply' = <<"Estimated calories", outcome.calories>>
       ELSE /\ reply' = <<"Error estimating calories">>
            /\ UNCHANGED <<state, log>>

\* cmd_cal, the estimator's call ending in `outcome`.
cmd_cal(uid, outcome) ==
    /\ reply' =
          IF uid \notin DOMAIN state
          THEN <<"No pending entry. Start by sending a message or a photo.">>
          ELSE IF state[uid].texts = <<>> /\ state[uid].images = <<>>
          THEN <<"Your entry is empty. Add text or photos first.">>
          ELSE IF ~GEMINI_API_KEY
          THEN <<"GEMINI_API_KEY is not set. Cannot estimate calories.">>
          ELSE IF outcome.raises
          THEN <<"Error estimating calories">>
          ELSE <<"Estimated calories", outcome.calories>>
    /\ UNCHANGED <<state, log, now, photos, GEMINI_API_KEY, timeVars>>

\* Time passes between two updates.
Tick(d) ==
    /\ now' = now + d
    /\ UNCHANGED <<state, log, photos, reply, updates, GEMINI_API_KEY, timeVars, tasks>>

-----------------------------------------------------------------------------
(* The bot, its updates handled one at a time *)

MaxUpdates == 3
MaxNow == 60

TickSteps == {30}

\* "egg", " ham" and a blank message; the closing message "650 kcal".
Messages ==
    { <<"e", "g", "g">>,
      <<" ", "h", "a", "m">>,
      <<" ">>,
      <<"6", "5", "0", " ", "k", "c", "a", "l">> }

\* A record an earlier run of the bot left in the file.
OldRecord ==
    [sent |-> fmt_utc_human(0), description |-> <<"t", "e", "a">>,
     images |-> <<>>, calories |-> 90]

\* run_polling hands the next update to its handler.
Update(max) == updates < max /\ updates' = updates + 1 /\ UNCHANGED tasks

Init ==
    /\ state = [u \in {} |-> 0]
    /\ log \in {<<>>, <<OldRecord>>}
    /\ now = 0
    /\ photos = 0
    /\ reply = <<>>
    /\ updates = 0
    /\ GEMINI_API_KEY \in BOOLEAN
    /\ clock = 0
    /\ timeCall = <<>>
    /\ timeResult = <<>>
    /\ tasks = <<>>

Text == \E u \in Users, raw \in Messages : Update(MaxUpdates) /\ handle_text(u, raw)
Photo == \E u \in Users : Update(MaxUpdates) /\ handle_photo(u)
Discard == \E u \in Users : Update(MaxUpdates) /\ cmd_discard(u)
Status == \E u \in Users : Update(MaxUpdates) /\ cmd_status(u)
Cal == \E u \in Users, o \in EstimatorOutcomes : Update(MaxUpdates) /\ cmd_cal(u, o)
Report == Update(MaxUpdates) /\ cmd_report
Start == Update(MaxUpdates) /\ cmd_start
Help == Update(MaxUpdates) /\ cmd_help
TimePasses == \E d \in TickSteps : now + d <= MaxNow /\ Tick(d)

Next ==
    \/ Text
    \/ Photo
    \/ Discard
    \/ Status
    \/ Cal
    \/ Report
    \/ Start
    \/ Help
    \/ TimePasses

Spec == Init /\ [][Next]_vars

-----------------------------------------------------------------------------
(* The handlers as coroutines: each runs from one await to the next without *)
(* another handler in between, and may be suspended at an await while       *)
(* others run.  The handlers that write the store or the log are modelled:  *)
(* handle_text, handle_photo and cmd_discard.                               *)

MaxAsyncUpdates == 3

\* The user whose updates are in flight together.
AsyncUsers == {CHOOSE u \in Users : \A v \in Users : u <= v}

\* The text of the n-th update when it is a line of a meal: a line no other
\* update carries.
LineOf(n) == <<"m", CHOOSE c \in AsciiDigits : DigitValue(c) = n % 10>>

\* What a text update may carry: its own line, a blank message, a closing
\* message.
AsyncTexts(n) == { LineOf(n), <<" ">>, <<"6", "5">> }

\* The coroutine of a handler that has not run yet.
NewTask(kind, uid, raw) ==
    [kind |-> kind, uid |-> uid, raw |-> raw, pc |-> "start", fpath |-> 0,
     pe |-> <<>>, answer |-> <<>>]

\* An update arrives and the application creates the task of its handler.
Arrive(kind, uid, raw) ==
    /\ updates < MaxAsyncUpdates
    /\ updates' = updates + 1
    /\ tasks' = Append(tasks, NewTask(kind, uid, raw))
    /\ UNCHANGED <<state, log, now, photos, reply, GEMINI_API_KEY, timeVars>>

\* handle_text from its start to its await of reply_text.
TextRuns(k) ==
    /\ tasks[k].kind = "text" /\ tasks[k].pc = "start"
    /\ handle_text(tasks[k].uid, tasks[k].raw)
    /\ tasks' = [tasks EXCEPT ![k].pc = "reply", ![k].answer = reply']
    /\ UNCHANGED updates

\* handle_photo from its start to its await of download_to_drive: the file
\* is named.  (The await of get_file before it changes nothing.)
PhotoDownloads(k) ==
    /\ tasks[k].kind = "photo" /\ tasks[k].pc = "start"
    /\ photos' = photos + 1
    /\ tasks' = [tasks EXCEPT ![k].pc = "download", ![k].fpath = photos + 1]
    /\ UNCHANGED <<state, log, now, reply, updates, GEMINI_API_KEY, timeVars>>

\* handle_photo from the end of the download to its await of reply_text.
PhotoJoins(k) ==
    /\ tasks[k].kind = "photo" /\ tasks[k].pc = "download"
    /\ LET st == get_or_create_entry(tasks[k].uid) IN
          state' = [st EXCEPT ![tasks[k].uid].images = Append(@, tasks[k].fpath)]
    /\ reply' = <<"Photo added.">>
    /\ tasks' = [tasks EXCEPT ![k].pc = "reply", ![k].answer = <<"Photo added.">>]
    /\ UNCHANGED <<log, now, photos, updates, GEMINI_API_KEY, timeVars>>

\* cmd_discard from its start to its await of reply_text; pe is the entry it
\* popped.
DiscardRuns(k) ==
    /\ tasks[k].kind = "discard" /\ tasks[k].pc = "start"
    /\ cmd_discard(tasks[k].uid)
    /\ tasks' = [tasks EXCEPT ![k].pc = "reply", ![k].answer = reply',
                              ![k].pe = IF tasks[k].uid \in DOMAIN state
                                        THEN <<state[tasks[k].uid]>> ELSE <<>>]
    /\ UNCHANGED updates

\* The await of reply_text ends: the user has the answer, the handler returns.
Returns(k) ==
    /\ tasks[k].pc = "reply"
    /\ tasks' = [tasks EXCEPT ![k].pc = "done"]
    /\ UNCHANGED <<state, log, now, photos, reply, updates, GEMINI_API_KEY, timeVars>>

InitAsync ==
    /\ state = [u \in {} |-> 0]
    /\ log = <<>>
    /\ now = 0
    /\ photos = 0
    /\ reply = <<>>
    /\ updates = 0
    /\ GEMINI_API_KEY = FALSE
    /\ clock = 0
    /\ timeCall = <<>>
    /\ timeResult = <<>>
    /\ tasks = <<>>

TextArrives == \E u \in AsyncUsers, raw \in AsyncTexts(updates + 1) : Arrive("text", u, raw)
PhotoArrives == \E u \in AsyncUsers : Arrive("photo", u, <<>>)
DiscardArrives == \E u \in AsyncUsers : Arrive("discard", u, <<>>)
TextStep == \E k \in 1..Len(tasks) : TextRuns(k)
PhotoStep == \E k \in 1..Len(tasks) : PhotoDownloads(k)
PhotoJoinStep == \E k \in 1..Len(tasks) : PhotoJoins(k)
DiscardStep == \E k \in 1..Len(tasks) : DiscardRuns(k)
ReturnStep == \E k \in 1..Len(tasks) : Returns(k)

NextAsync ==
    \/ TextArrives
    \/ PhotoArrives
    \/ DiscardArrives
    \/ TextStep
    \/ PhotoStep
    \/ PhotoJoinStep
    \/ DiscardStep
    \/ ReturnStep

SpecAsync == InitAsync /\ [][NextAsync]_vars

-----------------------------------------------------------------------------
(* The commands main() registers, and the updates that are commands *)

\* The commands with a CommandHandler.
Registered == {"start", "help", "status", "discard", "report", "cal"}

\* The application handing the command update /command of user uid to the
\* first handler whose filter takes it: the CommandHandler of that name, or
\* none, as the MessageHandlers take photos and texts that are no commands.
Dispatch(command, uid, outcome) ==
    CASE command = "start" -> cmd_start
      [] command = "help" -> cmd_help
      [] command = "status" -> cmd_status(uid)
      [] command = "discard" -> cmd_discard(uid)
      [] command = "report" -> cmd_report
      [] command = "cal" -> cmd_cal(uid, outcome)
      [] OTHER -> UNCHANGED <<state, log, now, photos, reply, GEMINI_API_KEY, timeVars>>

\* The commands a user may send: those of the help text and of the reply to
\* /start.
Commands == {"start", "help", "status", "discard", "report", "stats", "cal"}

MaxDispatchUpdates == 3

DispatchCommand ==
    \E c \in Commands, u \in Users, o \in EstimatorOutcomes :
        Update(MaxDispatchUpdates) /\ Dispatch(c, u, o)
DispatchText == \E u \in Users, raw \in Messages : Update(MaxDispatchUpdates) /\ handle_text(u, raw)
DispatchPhoto == \E u \in Users : Update(MaxDispatchUpdates) /\ handle_photo(u)

NextDispatch ==
    \/ DispatchCommand
    \/ DispatchText
    \/ DispatchPhoto

SpecDispatch == Init /\ [][NextDispatch]_vars

-----------------------------------------------------------------------------
(* The close detector, on the texts one user sends *)

MaxCloseUpdates == 2

CloseUser == CHOOSE u \in Users : \A v \in Users : u <= v

\* "850 cal", "850kcal", " 850 ", "1234 Cal", "8500000 cal", "cal 850";
\* "8", "00", "05 cal", "99999", "850000", "850 KCAL", "850 cals", "85 0",
\* "85x", "egg", " ";
\* U+0668 U+0660, "85" U+0660, "850 " U+212A "cal", "850" U+00A0 "cal".
CloseInputs ==
    { <<"8", "5", "0", " ", "c", "a", "l">>,
      <<"8", "5", "0", "k", "c", "a", "l">>,
      <<" ", "8", "5", "0", " ">>,
      <<"1", "2", "3", "4", " ", "C", "a", "l">>,
      <<"8", "5", "0", "0", "0", "0", "0", " ", "c", "a", "l">>,
      <<"c", "a", "l", " ", "8", "5", "0">>,
      <<"8">>,
      <<"0", "0">>,
      <<"0", "5", " ", "c", "a", "l">>,
      <<"9", "9", "9", "9", "9">>,
      <<"8", "5", "0", "0", "0", "0">>,
      <<"8", "5", "0", " ", "K", "C", "A", "L">>,
      <<"8", "5", "0", " ", "c", "a", "l", "s">>,
      <<"8", "5", " ", "0">>,
      <<"8", "5", "x">>,
      <<"e", "g", "g">>,
      <<" ">>,
      <<"U+0668", "U+0660">>,
      <<"8", "5", "U+0660">>,
      <<"8", "5", "0", " ", "U+212A", "c", "a", "l">>,
      <<"8", "5", "0", "U+00A0", "c", "a", "l">> }

InitClose ==
    /\ state = [u \in {} |-> 0]
    /\ log = <<>>
    /\ now = 0
    /\ photos = 0
    /\ reply = <<>>
    /\ updates = 0
    /\ GEMINI_API_KEY = FALSE
    /\ clock = 0
    /\ timeCall = <<>>
    /\ timeResult = <<>>
    /\ tasks = <<>>

CloseText == \E raw \in CloseInputs : Update(MaxCloseUpdates) /\ handle_text(CloseUser, raw)
ClosePhoto == Update(MaxCloseUpdates) /\ handle_photo(CloseUser)

NextClose ==
    \/ CloseText
    \/ ClosePhoto

SpecClose == InitClose /\ [][NextClose]_vars

-----------------------------------------------------------------------------
(* The report, on the files the bot can have written *)

\* The sent dates of the files are 0..MaxDate.
MaxDate == 7

\* How many records a file holds for one date.
PerDate == {0, 1, 2}

\* The dates of S in ascending order.
Ascending(S) ==
    [i \in 1..Cardinality(S) |->
        CHOOSE x \in S : Cardinality({y \in S : y < x}) = i - 1]

\* The record of a close on date d at minute hm of the day.
RecordOn(d, hm, kcal) ==
    [sent |-> [date |-> d, hm |-> hm], description |-> <<>>, images |-> <<>>,
     calories |-> kcal]

\* A file with count[d] records for each date d: the first record of each date
\* in ascending order of the dates, then the second records in descending
\* order, as when the entries closed last were started first.
FileOf(count) ==
    LET once  == Ascending({d \in DOMAIN count : count[d] >= 1})
        twice == Ascending({d \in DOMAIN count : count[d] >= 2})
    IN  [i \in 1..Len(once) |-> RecordOn(once[i], 600, 100 + once[i])]
        \o [i \in 1..Len(twice) |->
               RecordOn(twice[Len(twice) + 1 - i], 720, 1000 * (twice[Len(twice) + 1 - i] + 1))]

ReportFiles == {FileOf(count) : count \in [0..MaxDate -> PerDate]}

InitReport ==
    /\ state = [u \in {} |-> 0]
    /\ log \in ReportFiles
    /\ now = 0
    /\ photos = 0
    /\ reply = <<>>
    /\ updates = 0
    /\ GEMINI_API_KEY = FALSE
    /\ clock = 0
    /\ timeCall = <<>>
    /\ timeResult = <<>>
    /\ tasks = <<>>

\* One /report.
MaxReports == 1

NextReport == Update(MaxReports) /\ cmd_report

SpecReport == InitReport /\ [][NextReport]_vars

-----------------------------------------------------------------------------
(* cmd_time.py *)

UpperLetters == <<"A", "B", "C", "D", "E", "F", "G", "H", "I", "J", "K", "L", "M",
                  "N", "O", "P", "Q", "R", "S", "T", "U", "V", "W", "X", "Y", "Z">>
LowerLetters == <<"a", "b", "c", "d", "e", "f", "g", "h", "i", "j", "k", "l", "m",
                  "n", "o", "p", "q", "r", "s", "t", "u", "v", "w", "x", "y", "z">>

\* [A-Za-z]
IsLetter(c) == \E i \in 1..Len(UpperLetters) : c = UpperLetters[i] \/ c = LowerLetters[i]

\* str.lower() of a character of [A-Za-z]
Lower(c) ==
    IF \E i \in 1..Len(UpperLetters) : c = UpperLetters[i]
    THEN LowerLetters[CHOOSE i \in 1..Len(UpperLetters) : c = UpperLetters[i]]
    ELSE c

LowerAll(s) == [i \in 1..Len(s) |-> Lower(s[i])]

\* The length of the longest run of [A-Za-z] that starts at s[from].
RECURSIVE LetterRun(_, _)
LetterRun(s, from) ==
    IF from <= Len(s) /\ IsLetter(s[from]) THEN 1 + LetterRun(s, from + 1) ELSE 0

\* _WEEKDAYS
WEEKDAYS ==
    [w \in { <<"m", "o", "n">>, <<"m", "o", "n", "d", "a", "y">>,
             <<"t", "u", "e">>, <<"t", "u", "e", "s">>, <<"t", "u", "e", "s", "d", "a", "y">>,
             <<"w", "e", "d">>, <<"w", "e", "d", "s">>,
             <<"w", "e", "d", "n", "e", "s", "d", "a", "y">>,
             <<"t", "h", "u">>, <<"t", "h", "u", "r">>, <<"t", "h", "u", "r", "s">>,
             <<"t", "h", "u", "r", "s", "d", "a", "y">>,
             <<"f", "r", "i">>, <<"f", "r", "i", "d", "a", "y">>,
             <<"s", "a", "t">>, <<"s", "a", "t", "u", "r", "d", "a", "y">>,
             <<"s", "u", "n">>, <<"s", "u", "n", "d", "a", "y">> } |->
        CASE w[1] = "m" -> 0
          [] w[1] = "t" /\ w[2] = "u" -> 1
          [] w[1] = "w" -> 2
          [] w[1] = "t" /\ w[2] = "h" -> 3
          [] w[1] = "f" -> 4
          [] w[1] = "s" /\ w[2] = "a" -> 5
          [] w[1] = "s" /\ w[2] = "u" -> 6]

TODAY == <<"t", "o", "d", "a", "y">>
YESTERDAY == <<"y", "e", "s", "t", "e", "r", "d", "a", "y">>

\* The whitespace after /time as \s*.
AfterMarker_Optional(w1) == w1 >= 0

\* The \s+ after /time, for a run of w1 whitespace characters.
AfterMarker(w1) == w1 >= 1

\* _CMD_RE.match(cmd) for
\*   ^/time\s+(?:(?P<dateword>[A-Za-z]+)\s+)?(?P<hour>\d{1,2})\s*(?P<ampm>[AaPp][Mm])$
\* The parts are over disjoint character classes, so the only split that can
\* match takes each run whole.  The result is the match object, or NoMatch.
NoMatch == [matched |-> FALSE, dateword |-> <<>>, hour |-> <<>>, ampm |-> <<>>]

CMD_RE_match(cmd) ==
    LET n  == Len(cmd)
        w1 == SpaceRun(cmd, 6)
        l  == LetterRun(cmd, 6 + w1)
        w2 == SpaceRun(cmd, 6 + w1 + l)
        \* the optional group matches a run of letters and the whitespace after it
        p  == IF l > 0 /\ w2 > 0 THEN 6 + w1 + l + w2 ELSE 6 + w1
        d  == DigitRun(cmd, p)
        w3 == SpaceRun(cmd, p + d)
        r  == p + d + w3
    IN  IF /\ n >= 5
           /\ SubSeq(cmd, 1, 5) = <<"/", "t", "i", "m", "e">>
           /\ AfterMarker(w1)
           /\ d \in 1..2
           /\ r + 1 = n
           /\ cmd[r] \in {"a", "A", "p", "P"}
           /\ cmd[r + 1] \in {"m", "M"}
        THEN [matched  |-> TRUE,
              dateword |-> IF p = 6 + w1 THEN <<>> ELSE SubSeq(cmd, 6 + w1, 5 + w1 + l),
              hour     |-> SubSeq(cmd, p, p + d - 1),
              ampm     |-> SubSeq(cmd, r, r + 1)]
        ELSE NoMatch

\* The time zones of the model and their offsets from UTC, in hours (standard
\* time; the model has no daylight saving time).
HELSINKI == "Europe/Helsinki"
TimeZones == {"Europe/Helsinki", "UTC"}
UtcOffset(tz) == IF tz = "Europe/Helsinki" THEN 2 ELSE 0

\* The ticks of the clock in a second: datetime.now() has a sub-second part,
\* a datetime built from a date and an hour has none.
TicksPerSecond == 2

SecondsPerHour == 3600
TicksPerDay == SecondsPerDay * TicksPerSecond

\* timedelta(days=6, hours=23, minutes=59) and timedelta(seconds=59), in ticks
MaxAge == (6 * SecondsPerDay + 23 * SecondsPerHour + 59 * SecondsPerMinute) * TicksPerSecond
MaxAhead == 59 * TicksPerSecond

\* (now_user - user_dt) > timedelta(days=6, hours=23, minutes=59) compared
\* with >=.
TooOld_AtBound(now_user, user_dt) == now_user - user_dt >= MaxAge

\* (now_user - user_dt) > timedelta(days=6, hours=23, minutes=59)
TooOld(now_user, user_dt) == now_user - user_dt > MaxAge

\* user_dt > now_user + timedelta(seconds=59)
TooNew(now_user, user_dt) == user_dt > now_user + MaxAhead

\* date.weekday() of the date numbered d: Monday is 0, and day 0 is a Monday.
Weekday(d) == d % 7

\* helsinki_dt.strftime("... %a %Y-%m-%d %I %p (UTC%z)") for a wall time in
\* seconds: the weekday, the date, the hour of the 12-hour clock, AM or PM and
\* the offset.
Confirmation(helsinki_dt) ==
    LET date == helsinki_dt \div SecondsPerDay
        hr   == (helsinki_dt % SecondsPerDay) \div SecondsPerHour
    IN  [a |-> Weekday(date), Ymd |-> date,
         I |-> IF hr % 12 = 0 THEN 12 ELSE hr % 12,
         p |-> IF hr < 12 THEN "AM" ELSE "PM",
         z |-> UtcOffset(HELSINKI)]

\* The hour of the day without the reduction of 12 to 0.
Hr24_NoWrap(hour, ampm) == hour + (IF ampm = <<"p", "m">> THEN 12 ELSE 0)

\* hr24 = (hour % 12) + (12 if ampm == "pm" else 0)
Hr24(hour, ampm) == (hour % 12) + (IF ampm = <<"p", "m">> THEN 12 ELSE 0)

\* The part of handle_time_command after the date is resolved, for the clock
\* reading now_user (ticks of wall time in utz).
ResolveHour(now_user, target_date, hour, ampm, user_tz) ==
    LET hr24        == Hr24(hour, ampm)
        user_dt     == target_date * SecondsPerDay + hr24 * SecondsPerHour
        helsinki_dt == user_dt + (UtcOffset(HELSINKI) - UtcOffset(user_tz)) * SecondsPerHour
    IN  IF TooOld(now_user, user_dt * TicksPerSecond)
           \/ TooNew(now_user, user_dt * TicksPerSecond)
        THEN <<"TimeCommandError",
               "Time must be within the past 6 days and not in the future.">>
        ELSE <<"ok", helsinki_dt, Confirmation(helsinki_dt)>>

\* The hour check with 13 let through.
HourOutOfRange_Above13(hour) == hour < 1 \/ hour > 13

\* if hour < 1 or hour > 12
HourOutOfRange(hour) == hour < 1 \/ hour > 12

\* The days from today to the next day of the target weekday.
WeekdayDelta_Forward(weekday, target_wd) == (target_wd - weekday + 7) % 7

\* delta = (now_user.weekday() - target_wd) % 7
WeekdayDelta(weekday, target_wd) == (weekday - target_wd + 7) % 7

\* handle_time_command(cmd, user_tz) when datetime.now(utz) reads now_user:
\* what it returns, or the error it raises.
handle_time_command(cmd, user_tz, now_user) ==
    LET m == CMD_RE_match(Strip(cmd)) IN
    IF ~m.matched
    THEN <<"TimeCommandError", "Format: /time [today|yesterday|weekday] <H am/pm>">>
    ELSE LET dw         == IF m.dateword = <<>> THEN TODAY ELSE LowerAll(m.dateword)
             hour       == ParseInt(m.hour)
             ampm       == LowerAll(m.ampm)
             today_user == now_user \div TicksPerDay
             weekday    == Weekday(today_user)
         IN  IF HourOutOfRange(hour)
             THEN <<"TimeCommandError", "Hour must be 1-12.">>
             ELSE IF dw = TODAY
             THEN ResolveHour(now_user, today_user, hour, ampm, user_tz)
             ELSE IF dw = YESTERDAY
             THEN ResolveHour(now_user, today_user - 1, hour, ampm, user_tz)
             ELSE IF dw \notin DOMAIN WEEKDAYS
             THEN <<"TimeCommandError",
                    "Unknown date word. Use today, yesterday, or a weekday (Mon..Sun).">>
             ELSE LET delta == WeekdayDelta(weekday, WEEKDAYS[dw]) IN
                  IF delta > 6
                  THEN <<"TimeCommandError", "Weekday must refer to the past 6 days.">>
                  ELSE ResolveHour(now_user, today_user - delta, hour, ampm, user_tz)

\* A command as typed: what precedes "/time", "/time", the whitespace after
\* it, the date word and the whitespace after it when there is one, the hour,
\* the whitespace before am/pm, am/pm, and what follows.
CommandText(typed) ==
    typed.pre \o <<"/", "t", "i", "m", "e">> \o typed.lead
        \o (IF typed.dateword = <<>> THEN <<>> ELSE typed.dateword \o <<" ">>)
        \o typed.hour \o typed.sep \o typed.ampm \o typed.post

\* The call of handle_time_command with the arguments timeCall runs.
TimeCommand ==
    /\ timeCall # <<>> /\ timeResult = <<>>
    /\ \E res \in {handle_time_command(CommandText(timeCall[1]), timeCall[2], clock)} :
          timeResult' = res
    /\ UNCHANGED <<state, log, now, photos, reply, updates, GEMINI_API_KEY, clock,
                   timeCall, tasks>>

-----------------------------------------------------------------------------
(* The time resolver on its own: a command, a time zone and a reading of  *)
(* the clock, and the call that resolves the command against them.        *)

\* The days of the clock readings: they cover every weekday.
FirstDay == 7
MaxDayOffset == 6

ClockHours == {0, 9, 23}
ClockMinutes == {0, 59}
ClockSeconds == {0, 1}
ClockTicks == {0, TicksPerSecond - 1}

ClockReadings ==
    { (((FirstDay + d) * SecondsPerDay + h * SecondsPerHour
            + m * SecondsPerMinute + sec) * TicksPerSecond) + t :
        d \in 0..MaxDayOffset, h \in ClockHours, m \in ClockMinutes,
        sec \in ClockSeconds, t \in ClockTicks }

DateWords ==
    { <<>>, TODAY, YESTERDAY, <<"m", "o", "n">>, <<"t", "u", "e">>, <<"w", "e", "d">>,
      <<"t", "h", "u">>, <<"f", "r", "i">>, <<"s", "a", "t">>, <<"s", "u", "n">>,
      <<"n", "o", "o", "n">> }

HourTexts ==
    { <<"0">>, <<"1">>, <<"2">>, <<"3">>, <<"4">>, <<"5">>, <<"6">>, <<"7">>, <<"8">>,
      <<"9">>, <<"1", "0">>, <<"1", "1">>, <<"1", "2">>, <<"1", "3">> }

Typed(lead, dateword, hour, sep, ampm) ==
    [pre |-> <<>>, lead |-> lead, dateword |-> dateword, hour |-> hour, sep |-> sep,
     ampm |-> ampm, post |-> <<>>]

Around(pre, typed, post) == [typed EXCEPT !.pre = pre, !.post = post]

TimeInputs ==
    { Typed(<<" ">>, dw, h, <<" ">>, ap) :
        dw \in DateWords, h \in HourTexts, ap \in { <<"a", "m">>, <<"p", "m">> } }
    \cup
    { Typed(<<" ">>, w, <<"1", "2">>, <<" ">>, <<"a", "m">>) : w \in DOMAIN WEEKDAYS }
    \cup
    { Typed(<<" ">>, <<>>, <<"6">>, <<>>, <<"p", "m">>),
      Typed(<<>>, <<>>, <<"6">>, <<" ">>, <<"p", "m">>),
      Typed(<<" ", " ">>, YESTERDAY, <<"6">>, <<" ">>, <<"P", "M">>),
      Typed(<<" ">>, <<"T", "u", "e", "s">>, <<"0", "8">>, <<" ">>, <<"A", "m">>),
      Typed(<<" ">>, <<"S", "U", "N", "D", "A", "Y">>, <<"1", "2">>, <<>>, <<"a", "m">>),
      Typed(<<" ">>, <<"t", "h", "u", "r", "s">>, <<"U+0668">>, <<" ">>, <<"a", "m">>),
      Typed(<<" ">>, <<>>, <<"1", "2", "3">>, <<" ">>, <<"p", "m">>),
      Typed(<<" ">>, <<>>, <<>>, <<" ">>, <<"p", "m">>),
      Typed(<<" ">>, TODAY, <<"6">>, <<" ">>, <<>>),
      Typed(<<"NL">>, <<"w", "e", "d", "s">>, <<"7">>, <<"U+00A0">>, <<"p", "m">>) }

InitTime ==
    /\ state = << >>
    /\ log = <<>>
    /\ now = 0
    /\ photos = 0
    /\ reply = <<>>
    /\ updates = 0
    /\ GEMINI_API_KEY = FALSE
    /\ clock \in ClockReadings
    /\ timeCall \in TimeInputs \X TimeZones
    /\ timeResult = <<>>
    /\ tasks = <<>>

NextTime == TimeCommand

SpecTime == InitTime /\ [][NextTime]_vars

-----------------------------------------------------------------------------
(* The parser of the time resolver: commands of every shape, resolved     *)
(* against one reading of the clock.                                      *)

ParseHours ==
    { <<a>> : a \in AsciiDigits } \cup { <<a, b>> : a, b \in AsciiDigits }
    \cup { <<"U+0668">>, <<"1", "U+0660">>, <<"1", "2", "3">>, <<>> }

ParseLeads == { <<>>, <<" ">>, <<" ", "NL">> }

ParseDateWords == { <<>>, <<"m", "o", "n">>, <<"T", "o", "d", "a", "y">>, <<"n", "o", "o", "n">> }

ParseSeps == { <<>>, <<" ">> }

ParseAmPm == { <<"a", "m">>, <<"P", "M">>, <<"a">>, <<"h", "m">> }

ParseAround == { <<(<<>>), (<<>>)>>, <<(<<" ">>), (<<"NL">>)>>, <<(<<>>), (<<"x">>)>>,
                 <<(<<"x">>), (<<>>)>> }

ParseInputs ==
    { Around(ar[1], Typed(lead, dw, h, sep, ap), ar[2]) :
        ar \in ParseAround, lead \in ParseLeads, dw \in ParseDateWords,
        h \in ParseHours, sep \in ParseSeps, ap \in ParseAmPm }

\* Noon of the first day.
ParseClock == (FirstDay * SecondsPerDay + 12 * SecondsPerHour) * TicksPerSecond

InitParse ==
    /\ state = << >>
    /\ log = <<>>
    /\ now = 0
    /\ photos = 0
    /\ reply = <<>>
    /\ updates = 0
    /\ GEMINI_API_KEY = FALSE
    /\ clock = ParseClock
    /\ timeCall \in ParseInputs \X {HELSINKI}
    /\ timeResult = <<>>
    /\ tasks = <<>>

NextParse == TimeCommand

SpecParse == InitParse /\ [][NextParse]_vars

-----------------------------------------------------------------------------
(* What the specification says of a message, stated on its own *)

\* The characters of the specification's close grammar: whitespace, the ASCII
\* digits, and the letters of cal and kcal in either case.
GrammarSuffixes ==
    {<<>>} \cup
    {<<c, a, l>> : c \in {"c", "C"}, a \in {"a", "A"}, l \in {"l", "L"}} \cup
    {<<k, c, a, l>> : k \in {"k", "K"}, c \in {"c", "C"}, a \in {"a", "A"}, l \in {"l", "L"}}

\* The line a message leaves in the entry: the message without the whitespace
\* around it.
Trimmed(m) ==
    LET inner == {i \in 1..Len(m) : ~IsSpace(m[i])} IN
    IF inner = {} THEN <<>>
    ELSE SubSeq(m, CHOOSE i \in inner : \A j \in inner : i <= j,
                   CHOOSE i \in inner : \A j \in inner : j <= i)

\* The places of message m that hold an ASCII digit.
DigitPlaces(m) == {i \in 1..Len(m) : m[i] \in AsciiDigits}

\* Message m is whitespace, 2 to 5 ASCII digits, whitespace, an optional cal
\* or kcal in either case, whitespace, and nothing else: its digits are one
\* run of 2 to 5, only whitespace is before them, and what follows them is,
\* trimmed, nothing or the suffix.
GrammarMatches(m) ==
    LET D == DigitPlaces(m) IN
    /\ Cardinality(D) \in 2..5
    /\ \A i \in D, j \in D : \A k \in i..j : k \in D
    /\ \A i \in 1..Len(m) : (\A j \in D : i < j) => IsSpace(m[i])
    /\ Trimmed([i \in 1..Len(m) |-> IF \E j \in D : i <= j THEN " " ELSE m[i]])
          \in GrammarSuffixes

Pow10(k) == CASE k = 0 -> 1 [] k = 1 -> 10 [] k = 2 -> 100 [] k = 3 -> 1000 [] k = 4 -> 10000

\* The number the digits of a closing message m write: each digit weighs ten
\* times the digit after it.
GrammarValue(m) ==
    LET D == DigitPlaces(m)
        w[i \in 1..Len(m)] ==
            IF i \notin D THEN 0
            ELSE DigitValue(m[i]) * Pow10(Cardinality({j \in D : j > i}))
        sum[i \in 0..Len(m)] == IF i = 0 THEN 0 ELSE sum[i - 1] + w[i]
    IN  sum[Len(m)]

\* The messages of the bot's run that the grammar makes closing messages.
ClosingMessages == {m \in Messages : GrammarMatches(m)}

\* The non-empty lines joined with line breaks, in order: the lines up to
\* line i.
RECURSIVE JoinedUpTo(_, _)
JoinedUpTo(lines, i) ==
    IF i = 0 THEN <<>>
    ELSE IF lines[i] = <<>> THEN JoinedUpTo(lines, i - 1)
    ELSE IF \A j \in 1..(i - 1) : lines[j] = <<>> THEN lines[i]
    ELSE JoinedUpTo(lines, i - 1) \o <<"NL">> \o lines[i]

JoinedLines(lines) == JoinedUpTo(lines, Len(lines))

\* What user u has accumulated: nothing when the store holds no entry.
TextsOf(st, u) == IF u \in DOMAIN st THEN st[u].texts ELSE <<>>
ImagesOf(st, u) == IF u \in DOMAIN st THEN st[u].images ELSE <<>>

\* The last reply opens with `words`.
Replied(words) == reply # <<>> /\ reply[1] = words

NoPendingReply == <<"No pending entry. Start by sending a message or a photo.">>

\* The step appends exactly one record at the end of the log.
AppendsOne == Len(log') = Len(log) + 1 /\ SubSeq(log', 1, Len(log)) = log

LastRecord(l) == l[Len(l)]

\* The step is user u's closing message m, u having a pending entry.
SuccessfulClose(u, m) == u \in DOMAIN state /\ m \in ClosingMessages /\ handle_text(u, m)

-----------------------------------------------------------------------------
(* The claims *)

\* C1: a text that is no closing message adds its trimmed line at the end of
\* the sender's lines, a photo adds its reference at the end of the sender's
\* images, and a closing message with digit value k from a user with a pending
\* entry appends exactly one record, whose description is the user's non-empty
\* lines joined with line breaks in arrival order, whose images are the user's
\* references in arrival order and whose calories are k, and leaves the store
\* without an entry for that user.
C1_CloseWritesTheAccumulatedEntry ==
    [][\A u \in Users :
          /\ \A m \in Messages \ ClosingMessages :
                handle_text(u, m) =>
                    /\ TextsOf(state', u) = Append(TextsOf(state, u), Trimmed(m))
                    /\ ImagesOf(state', u) = ImagesOf(state, u)
          /\ handle_photo(u) =>
                    /\ TextsOf(state', u) = TextsOf(state, u)
                    /\ ImagesOf(state', u) = Append(ImagesOf(state, u), photos')
                    /\ \A v \in DOMAIN state : \A i \in 1..Len(state[v].images) :
                          state[v].images[i] # photos'
          /\ \A m \in ClosingMessages :
                SuccessfulClose(u, m) =>
                    /\ AppendsOne
                    /\ LastRecord(log').description = JoinedLines(state[u].texts)
                    /\ LastRecord(log').images = state[u].images
                    /\ LastRecord(log').calories = GrammarValue(m)
                    /\ u \notin DOMAIN state'
      ]_vars

\* C1's case: "egg" and " ham" were closed by "650 kcal".
C1_Witness ==
    /\ log # <<>>
    /\ LastRecord(log).description = <<"e", "g", "g", "NL", "h", "a", "m">>
    /\ LastRecord(log).images = <<>>
    /\ LastRecord(log).calories = 650
    /\ DOMAIN state = {}
    /\ Replied("Saved")

\* C2: a closing message from a user without a pending entry is answered with
\* the 'no pending entry' error and changes neither the log nor the store.
C2_CloseWithoutEntryIsAnError ==
    [][\A u \in Users, m \in ClosingMessages :
          (u \notin DOMAIN state /\ handle_text(u, m)) =>
              /\ reply' = NoPendingReply
              /\ log' = log
              /\ state' = state
      ]_vars

\* C2's case: the error was reported to one user while the other's entry and
\* the empty log stayed as they were.
C2_Witness ==
    /\ reply = NoPendingReply
    /\ log = <<>>
    /\ DOMAIN state = {202}
    /\ updates = 2

\* C3: every step leaves the log unchanged or appends exactly one record at
\* its end, and the steps that append are exactly the closing messages of a
\* user with a pending entry; every record of the log was appended so, and its
\* length is the number of successful closes.
C3_LogIsAppendOnly ==
    [][/\ log' = log \/ AppendsOne
       /\ log' # log <=> \E u \in Users, m \in ClosingMessages : SuccessfulClose(u, m)
      ]_vars

\* C3's case: a record was appended after the one an earlier run left.
C3_Witness == Len(log) = 2 /\ log[1] = OldRecord /\ log[2].images = <<1>>

\* C4: /discard from a user with a pending entry removes the entry and appends
\* nothing; /discard from a user without one is answered 'Nothing to discard'
\* and changes neither store nor log; an entry that appears holds only the one
\* new item, and a photo reference that is in no entry and no record never
\* turns up in one again; a closing message that finds no entry is answered
\* with the 'no pending entry' error.
C4_DiscardDropsTheEntry ==
    [][/\ \A u \in Users :
            cmd_discard(u) =>
                IF u \in DOMAIN state
                THEN /\ u \notin DOMAIN state'
                     /\ log' = log
                     /\ reply' = <<"Pending entry discarded.">>
                ELSE /\ reply' = <<"Nothing to discard.">>
                     /\ state' = state
                     /\ log' = log
       /\ \A u \in Users :
            (u \notin DOMAIN state /\ u \in DOMAIN state') =>
                Len(state'[u].texts) + Len(state'[u].images) = 1
       /\ \A i \in 1..photos :
            (/\ \A v \in DOMAIN state : \A j \in 1..Len(state[v].images) : state[v].images[j] # i
             /\ \A r \in 1..Len(log) : \A j \in 1..Len(log[r].images) : log[r].images[j] # i)
            =>
            (/\ \A v \in DOMAIN state' : \A j \in 1..Len(state'[v].images) : state'[v].images[j] # i
             /\ \A r \in 1..Len(log') : \A j \in 1..Len(log'[r].images) : log'[r].images[j] # i)
       /\ \A u \in Users, m \in ClosingMessages :
            (u \notin DOMAIN state /\ handle_text(u, m)) =>
                reply' = NoPendingReply /\ log' = log
      ]_vars

\* C4's case: a photo was discarded and the update after the discard found no
\* entry; nothing was written.
C4_Witness ==
    /\ reply = NoPendingReply
    /\ photos = 1
    /\ DOMAIN state = {}
    /\ log = <<>>
    /\ updates = 3

\* C5: a message or command of user a leaves the pending entry of every other
\* user as it was: present or absent, and with the same startedAt, lines and
\* images.
C5_UsersAreIsolated ==
    [][\A a \in Users :
          (\/ \E m \in Messages : handle_text(a, m)
           \/ handle_photo(a)
           \/ cmd_discard(a)
           \/ cmd_status(a)
           \/ \E o \in EstimatorOutcomes : cmd_cal(a, o))
          =>
          \A b \in Users \ {a} :
              /\ b \in DOMAIN state <=> b \in DOMAIN state'
              /\ b \in DOMAIN state => state'[b] = state[b]
      ]_vars

\* C5's case: one user's entry was closed while the other's stayed pending.
C5_Witness ==
    /\ Len(log) = 1
    /\ log[1].images = <<1>>
    /\ DOMAIN state = {202}
    /\ state[202].images = <<2>>
    /\ Replied("Saved")

\* C6 as stated: every record's calories are an integer from 10 to 99999.
C6_CaloriesFrom10 ==
    \A i \in 1..Len(log) : log[i].calories \in 10..99999

\* C6, amended: every record's calories are an integer from 0 to 99999; the
\* 2 to 5 digits of a closing message may start with zeros.
C6_CaloriesUpTo99999 ==
    \A i \in 1..Len(log) : log[i].calories \in 0..99999

\* C6's case: "99999" closed an entry.
C6_Witness ==
    /\ Len(log) = 1
    /\ log[1].calories = 99999
    /\ Replied("Saved")

\* C7: a text is handled as a closing message exactly when it is whitespace,
\* 2 to 5 ASCII digits, whitespace, an optional cal or kcal in either case,
\* whitespace and nothing else; any other text is accumulated as a line.
C7_CloseIffGrammar ==
    [][\A m \in CloseInputs :
          handle_text(CloseUser, m) =>
              IF GrammarMatches(m)
              THEN /\ TextsOf(state', CloseUser) = <<>>
                   /\ Replied("Saved")' \/ reply' = NoPendingReply
              ELSE /\ TextsOf(state', CloseUser)
                        = Append(TextsOf(state, CloseUser), Trimmed(m))
                   /\ log' = log
                   /\ reply' = <<"Noted.">>
      ]_vars

\* C8: an entry that appears has the current time as its startedAt, an entry
\* that stays keeps its startedAt, and the record a close writes has the
\* entry's startedAt, cut to the minute, as its sent time.
C8_StartedAtIsSetOnce ==
    [][\A u \in Users :
          /\ (u \notin DOMAIN state /\ u \in DOMAIN state') =>
                state'[u].started_at = now
          /\ (u \in DOMAIN state /\ u \in DOMAIN state') =>
                state'[u].started_at = state[u].started_at
          /\ \A m \in ClosingMessages :
                SuccessfulClose(u, m) =>
                    LET sent    == LastRecord(log').sent
                        minute  == sent.date * SecondsPerDay + sent.hm * SecondsPerMinute
                        started == state[u].started_at
                    IN  /\ sent.hm \in 0..(SecondsPerDay \div SecondsPerMinute - 1)
                        /\ minute <= started
                        /\ started < minute + SecondsPerMinute
      ]_vars

\* C8's case: the other user's entry started in minute 1, and the record
\* written after that is sent in minute 0, when its entry started.
C8_Witness ==
    /\ Len(log) = 1
    /\ log[1].sent = [date |-> 0, hm |-> 0]
    /\ Replied("Saved")
    /\ DOMAIN state = {202}
    /\ state[202].started_at = 60

\* The dates that have a record in file l, and the calories of the records of
\* file l sent on date d.
DatesOf(l) == {l[i].sent.date : i \in 1..Len(l)}

RECURSIVE CaloriesOfRecords(_, _)
CaloriesOfRecords(l, I) ==
    IF I = {} THEN 0
    ELSE LET i == CHOOSE x \in I : TRUE
         IN  l[i].calories + CaloriesOfRecords(l, I \ {i})

CaloriesOn(l, d) == CaloriesOfRecords(l, {i \in 1..Len(l) : l[i].sent.date = d})

\* C9: the report of a file without records is 'No entries found'; the report
\* of any other file lists min(7, number of distinct dates) dates, each a date
\* with a record, in strictly descending order, no date with a record being
\* later than a listed one and left out, each with the sum of the calories of
\* the records sent on it.
C9_ReportListsLatestDays ==
    reply # <<>> =>
        IF log = <<>>
        THEN reply = <<"No entries found.">>
        ELSE /\ Replied("Total calories for the last 7 logged days:")
             /\ LET lines  == reply[2]
                    listed == {lines[i][1] : i \in 1..Len(lines)}
                IN  /\ Len(lines) = IF Cardinality(DatesOf(log)) < 7
                                    THEN Cardinality(DatesOf(log)) ELSE 7
                    /\ listed \subseteq DatesOf(log)
                    /\ \A i \in 1..(Len(lines) - 1) : lines[i][1] > lines[i + 1][1]
                    /\ \A d \in DatesOf(log) \ listed : \A e \in listed : d < e
                    /\ \A i \in 1..Len(lines) : lines[i][2] = CaloriesOn(log, lines[i][1])

\* C9's case: the report of a file with records on 8 dates, two of them on
\* one date, lists 7 days.
C9_Witness ==
    /\ Replied("Total calories for the last 7 logged days:")
    /\ Len(reply[2]) = 7
    /\ Cardinality(DatesOf(log)) = 8
    /\ \E d \in DatesOf(log) : Cardinality({i \in 1..Len(log) : log[i].sent.date = d}) = 2


-----------------------------------------------------------------------------
(* The range of the time resolver *)

\* The text of the range error.
RangeError == "Time must be within the past 6 days and not in the future."

\* The date a date word names on the day `today`: no word and "today" name today, "yesterday" the day before, a
\* weekday its most recent occurrence; -1 for a word that names no date.
WeekdaySpellings ==
    << { <<"m", "o", "n">>, <<"m", "o", "n", "d", "a", "y">> },
       { <<"t", "u", "e">>, <<"t", "u", "e", "s">>, <<"t", "u", "e", "s", "d", "a", "y">> },
       { <<"w", "e", "d">>, <<"w", "e", "d", "s">>,
         <<"w", "e", "d", "n", "e", "s", "d", "a", "y">> },
       { <<"t", "h", "u">>, <<"t", "h", "u", "r">>, <<"t", "h", "u", "r", "s">>,
         <<"t", "h", "u", "r", "s", "d", "a", "y">> },
       { <<"f", "r", "i">>, <<"f", "r", "i", "d", "a", "y">> },
       { <<"s", "a", "t">>, <<"s", "a", "t", "u", "r", "d", "a", "y">> },
       { <<"s", "u", "n">>, <<"s", "u", "n", "d", "a", "y">> } >>

\* Monday is 0 and Sunday 6, whatever the case of the letters; -1 for a word
\* that is no weekday.
WeekdayNumber(word) ==
    LET w    == LowerAll(word)
        days == {i \in 1..7 : w \in WeekdaySpellings[i]}
    IN  IF days = {} THEN -1 ELSE (CHOOSE i \in days : TRUE) - 1

NamedDate(word, today) ==
    LET w == LowerAll(word)
        n == WeekdayNumber(word)
    IN  IF word = <<>> \/ w = TODAY THEN today
        ELSE IF w = YESTERDAY THEN today - 1
        ELSE IF n = -1 THEN -1
        ELSE CHOOSE d \in (today - 6)..today : Weekday(d) = n

\* The hour of the day an hour of the 12-hour clock names, -1 when the text
\* is not one of 1..12.
NamedHour(hour, ampm) ==
    LET h == CASE hour = <<"1", "0">> -> 10
               [] hour = <<"1", "1">> -> 11
               [] hour = <<"1", "2">> -> 12
               [] Len(hour) = 1 /\ hour[1] \in AsciiDigits \ {"0"} -> DigitValue(hour[1])
               [] OTHER -> -1
    IN  IF h = -1 THEN -1
        ELSE IF ampm = <<"a", "m">> THEN (IF h = 12 THEN 0 ELSE h)
        ELSE (IF h = 12 THEN 12 ELSE h + 12)

\* The call has run, and resolved a date and an hour.
Resolved ==
    /\ timeCall # <<>> /\ timeResult # <<>>
    /\ timeCall[1].lead = <<" ">> /\ timeCall[1].sep = <<" ">>
    /\ timeCall[1].ampm \in { <<"a", "m">>, <<"p", "m">> }
    /\ NamedDate(timeCall[1].dateword, clock \div (24 * 3600 * TicksPerSecond)) # -1
    /\ NamedHour(timeCall[1].hour, timeCall[1].ampm) # -1

\* The resolved local instant t of the call, in ticks.
ResolvedInstant ==
    (NamedDate(timeCall[1].dateword, clock \div (24 * 3600 * TicksPerSecond)) * 24
        + NamedHour(timeCall[1].hour, timeCall[1].ampm)) * 3600 * TicksPerSecond

\* now - t <= 6 days 23 hours 59 minutes and t <= now + 59 seconds
WithinRange ==
    /\ clock - ResolvedInstant <= ((6 * 24 + 23) * 60 + 59) * 60 * TicksPerSecond
    /\ ResolvedInstant <= clock + 59 * TicksPerSecond

\* C10: once date and hour are resolved, the time resolver succeeds if and
\* only if the resolved local instant t has now - t <= 6 days 23 hours 59
\* minutes and t <= now + 59 seconds; a time 7 days in the past is rejected;
\* every violation fails with the range error and returns no instant.
C10_ResolverRange ==
    Resolved =>
        /\ timeResult[1] = "ok" <=> WithinRange
        /\ clock - ResolvedInstant >= 7 * 24 * 3600 * TicksPerSecond
              => timeResult[1] # "ok"
        /\ ~WithinRange => timeResult = <<"TimeCommandError", RangeError>>

\* C10 happens: a time exactly 6 days 23:59 in the past is accepted.
C10_Witness ==
    /\ Resolved
    /\ clock - ResolvedInstant = ((6 * 24 + 23) * 60 + 59) * 60 * TicksPerSecond
    /\ timeResult[1] = "ok"

-----------------------------------------------------------------------------
(* The grammar and the hour check of the time resolver *)

FormatError == <<"TimeCommandError", "Format: /time [today|yesterday|weekday] <H am/pm>">>
HourError == <<"TimeCommandError", "Hour must be 1-12.">>

\* A run of whitespace, possibly empty.
AllSpace(s) == \A i \in 1..Len(s) : IsSpace(s[i])

\* One or two digits.
IsHourText(s) == Len(s) \in 1..2 /\ \A i \in 1..Len(s) : IsDigit(s[i])

\* am or pm, in either case.
IsAmPm(s) ==
    /\ Len(s) = 2
    /\ s[1] \in {"a", "A", "p", "P"}
    /\ s[2] \in {"m", "M"}

\* The command as typed is: whitespace that is dropped, "/time", whitespace,
\* a date word of letters followed by whitespace or no date word, an hour of
\* one or two digits, whitespace or none, am or pm, and whitespace that is
\* dropped.
TimeGrammar(typed) ==
    /\ AllSpace(typed.pre) /\ AllSpace(typed.post)
    /\ typed.lead # <<>> /\ AllSpace(typed.lead)
    /\ \A i \in 1..Len(typed.dateword) : IsLetter(typed.dateword[i])
    /\ IsHourText(typed.hour)
    /\ AllSpace(typed.sep)
    /\ IsAmPm(typed.ampm)

\* The number an hour of one or two digits writes.
HourNumber(hour) ==
    IF Len(hour) = 1 THEN DigitValue(hour[1])
    ELSE 10 * DigitValue(hour[1]) + DigitValue(hour[2])

\* The call has run.
Called == timeCall # <<>> /\ timeResult # <<>>

\* C11: for every grammatically valid /time command the hour check passes if
\* and only if the hour of one or two digits is in 1..12; every other hour,
\* 0 and 13 to 99 among them, fails with the error 'Hour must be 1-12'.
C11_HourCheck ==
    (Called /\ TimeGrammar(timeCall[1])) =>
        /\ timeResult # FormatError
        /\ timeResult = HourError <=> HourNumber(timeCall[1].hour) \notin 1..12

\* C11's case: the hour 13 failed the hour check, under a date word that names
\* no date.
C11_Witness ==
    /\ Called
    /\ timeCall[1].hour = <<"1", "3">>
    /\ timeCall[1].dateword = <<"n", "o", "o", "n">>
    /\ timeResult = HourError

-----------------------------------------------------------------------------
(* Weekdays *)

WeekdayError == <<"TimeCommandError", "Weekday must refer to the past 6 days.">>

\* Today, in the zone of the caller.
Today == clock \div (24 * 3600 * TicksPerSecond)

\* The local time of the instant the call returned, in seconds: the returned
\* time is in the zone of Helsinki.
LocalResult ==
    timeResult[2] - (UtcOffset(HELSINKI) - UtcOffset(timeCall[2])) * 3600

\* C12: for every recognized weekday spelling and every today, the resolved
\* date is the most recent date not after today with the requested weekday,
\* 0 to 6 days back, and today when the requested weekday is today's; the
\* error 'Weekday must refer to the past 6 days' is raised for no input.
C12_WeekdayIsMostRecent ==
    Called =>
        /\ timeResult # WeekdayError
        /\ (WeekdayNumber(timeCall[1].dateword) # -1 /\ timeResult[1] = "ok") =>
              \E back \in 0..6 :
                  /\ LocalResult \div (24 * 3600) = Today - back
                  /\ Weekday(Today - back) = WeekdayNumber(timeCall[1].dateword)
                  /\ (Weekday(Today) = WeekdayNumber(timeCall[1].dateword)) => back = 0

\* C12's case: "wednesday" on a Wednesday resolved to today.
C12_Witness ==
    /\ Called
    /\ timeCall[1].dateword = <<"w", "e", "d", "n", "e", "s", "d", "a", "y">>
    /\ Weekday(Today) = 2
    /\ timeResult[1] = "ok"
    /\ LocalResult \div (24 * 3600) = Today

-----------------------------------------------------------------------------
(* today, yesterday and no date word *)

\* The call is of today, yesterday or no date word, with an hour of 1..12 and
\* am or pm.
NamesTodayOrYesterday ==
    /\ Called /\ TimeGrammar(timeCall[1])
    /\ \/ timeCall[1].dateword = <<>>
       \/ LowerAll(timeCall[1].dateword) \in {TODAY, YESTERDAY}
    /\ HourNumber(timeCall[1].hour) \in 1..12

\* The local time the claim gives the call, in seconds: the date, and the hour
\* (h mod 12) plus 12 when pm, with minutes and seconds zero.
StatedLocalTime ==
    LET date == IF LowerAll(timeCall[1].dateword) = YESTERDAY THEN Today - 1 ELSE Today
        hour == (HourNumber(timeCall[1].hour) % 12)
                    + (IF timeCall[1].ampm[1] \in {"p", "P"} THEN 12 ELSE 0)
    IN  (date * 24 + hour) * 3600

\* C14: with 'today', 'yesterday' or no date word and an hour h of 1..12, the
\* resolved local time is on today, the day before today, or today, at hour
\* (h mod 12) plus 12 when pm, with minutes and seconds zero; a command
\* without a date word resolves exactly as the same command with 'today'.
C14_TodayAndYesterday ==
    NamesTodayOrYesterday =>
        /\ timeResult[1] = "ok" \/ timeResult = <<"TimeCommandError", RangeError>>
        /\ timeResult[1] = "ok" => LocalResult = StatedLocalTime
        /\ timeCall[1].dateword = <<>> =>
              timeResult = handle_time_command(
                               CommandText([timeCall[1] EXCEPT !.dateword = TODAY]),
                               timeCall[2], clock)

\* C14's case: 12 am of yesterday resolved to hour 0 of the day before today.
C14_Witness ==
    /\ NamesTodayOrYesterday
    /\ timeCall[1].dateword = YESTERDAY
    /\ timeCall[1].hour = <<"1", "2">>
    /\ timeCall[1].ampm = <<"a", "m">>
    /\ timeResult[1] = "ok"
    /\ LocalResult = (Today - 1) * 24 * 3600

-----------------------------------------------------------------------------
(* The grammar of the parser *)

\* The grammar as stated: "/time", whitespace or none, a date word of letters
\* followed by whitespace or no date word, an hour of one or two digits,
\* whitespace or none, am or pm in either case, and the end of the string.
StatedGrammar(typed) ==
    /\ typed.pre = <<>> /\ typed.post = <<>>
    /\ AllSpace(typed.lead)
    /\ \A i \in 1..Len(typed.dateword) : IsLetter(typed.dateword[i])
    /\ IsHourText(typed.hour)
    /\ AllSpace(typed.sep)
    /\ IsAmPm(typed.ampm)

\* C13 as stated: the parser accepts a command if and only if it is in the
\* grammar as stated, with optional whitespace after '/time'; every other
\* input fails with the format error.
C13_ParserGrammarAsStated ==
    Called => (timeResult # FormatError <=> StatedGrammar(timeCall[1]))

\* C13, amended: the parser accepts a command if and only if, without the
\* whitespace around it, it is '/time', at least one whitespace character, a
\* date word of the letters A-Z and a-z followed by whitespace or no date
\* word, an hour of one or two decimal digits, whitespace or none, am or pm
\* in either case, and the end of the string; every other input fails with
\* the format error.
C13_ParserGrammar ==
    Called => (timeResult # FormatError <=> TimeGrammar(timeCall[1]))

\* C13's case: a command with whitespace around it, two whitespace characters
\* after /time, a date word in capitals and no whitespace before am was
\* accepted and resolved.
C13_Witness ==
    /\ Called
    /\ timeCall[1] = Around(<<" ">>,
                            Typed(<<" ", "NL">>, <<"T", "o", "d", "a", "y">>, <<"0", "9">>,
                                  <<>>, <<"a", "m">>),
                            <<"NL">>)
    /\ timeResult[1] = "ok"

-----------------------------------------------------------------------------
(* Times that are not in the future *)

\* C20: for every recognized date word, every hour of 1..12 with am or pm and
\* every now on a whole second, a request whose resolved local instant is not
\* later than now succeeds; a weekday resolved to its most recent occurrence
\* within the past 6 days is never rejected by the range check.
C20_PastTimesSucceed ==
    (Resolved /\ clock % TicksPerSecond = 0 /\ ResolvedInstant <= clock) =>
        timeResult[1] = "ok"

-----------------------------------------------------------------------------
(* The commands that only read *)

\* C15: /status, /report and /cal leave every user's pending entry and every
\* record of the log as they were, whether the estimator is absent, succeeds
\* or fails, and a failure of the estimator is reported to the user.
C15_ReadOnlyCommands ==
    [][\A u \in Users, o \in EstimatorOutcomes :
          /\ (cmd_status(u) \/ cmd_report \/ cmd_cal(u, o)) =>
                state' = state /\ log' = log
          /\ (/\ cmd_cal(u, o)
              /\ u \in DOMAIN state /\ GEMINI_API_KEY /\ o.raises
              /\ state[u].texts # <<>> \/ state[u].images # <<>>) =>
                reply' = <<"Error estimating calories">>
      ]_vars

\* C15's case: the estimator failed for a user with a photo, the error was
\* reported, and the entry and the log of an earlier run are still there.
C15_Witness ==
    /\ reply = <<"Error estimating calories">>
    /\ GEMINI_API_KEY
    /\ \E u \in DOMAIN state : state[u].images = <<1>>
    /\ log = <<OldRecord>>

-----------------------------------------------------------------------------
(* Entries are never empty *)

\* C19: every pending entry in the store holds at least one text line or at
\* least one image reference, and /cal never answers 'Your entry is empty';
\* every record of the log was written from such an entry.
C19_EntriesAreNeverEmpty ==
    /\ \A u \in DOMAIN state : Len(state[u].texts) + Len(state[u].images) >= 1
    /\ ~Replied("Your entry is empty. Add text or photos first.")

\* C19's case: an entry whose only item is the line a blank message left.
C19_Witness ==
    \E u \in DOMAIN state : state[u].texts = << <<>> >> /\ state[u].images = <<>>

-----------------------------------------------------------------------------
(* The commands of the interface *)

\* The operation the interface gives each of its commands; /stats is
\* another name of /report.
StatedOperation(command, uid, outcome) ==
    CASE command = "start" -> cmd_start
      [] command = "help" -> cmd_help
      [] command = "status" -> cmd_status(uid)
      [] command = "discard" -> cmd_discard(uid)
      [] command \in {"report", "stats"} -> cmd_report
      [] command = "cal" -> cmd_cal(uid, outcome)

\* C16: /start, /help, /status, /discard, /report, /stats and /cal are each
\* dispatched to a handler, and /stats reaches the report operation /report
\* reaches.
C16_CommandsAreDispatched ==
    [][\A c \in {"start", "help", "status", "discard", "report", "stats", "cal"},
          u \in Users, o \in EstimatorOutcomes :
          Dispatch(c, u, o) => StatedOperation(c, u, o)
      ]_vars

-----------------------------------------------------------------------------
(* Handlers that interleave *)

\* The handler of update k has run to its await of reply_text, or returned.
Ran(k) == tasks[k].pc \in {"reply", "done"}

\* Update k is a closing message.
IsClose(k) == tasks[k].kind = "text" /\ GrammarMatches(tasks[k].raw)

\* Update k is a text that is accumulated, or a photo.
IsItem(k) == tasks[k].kind = "photo" \/ (tasks[k].kind = "text" /\ ~GrammarMatches(tasks[k].raw))

\* The closes of user u that wrote a record, the entries u discarded, and the
\* items that have joined an entry of u.
SavedCloses(u) ==
    {k \in 1..Len(tasks) : /\ IsClose(k) /\ tasks[k].uid = u /\ Ran(k)
                           /\ tasks[k].answer[1] = "Saved"}
Discards(u) ==
    {k \in 1..Len(tasks) : tasks[k].kind = "discard" /\ tasks[k].uid = u /\ tasks[k].pe # <<>>}
Joined(u) == {k \in 1..Len(tasks) : IsItem(k) /\ tasks[k].uid = u /\ Ran(k)}

\* C17: the close sequence runs with no other handler in between: a closing
\* message of a user with an entry appends the record of that entry and
\* removes the entry in the same step, and one of a user without an entry
\* changes nothing and reports 'no pending entry'.  So an entry is persisted
\* at most once: the records written, the entries discarded and the pending
\* entry of a user are never more than the items that joined, and of two
\* closing messages in flight together for one entry, exactly one appends a
\* record and the other reports 'no pending entry'.
C17_CloseIsAtomic ==
    /\ [][\A k \in 1..Len(tasks) :
             (TextRuns(k) /\ IsClose(k)) =>
                 IF tasks[k].uid \in DOMAIN state
                 THEN /\ AppendsOne
                      /\ LastRecord(log').images = state[tasks[k].uid].images
                      /\ LastRecord(log').description
                             = JoinedLines(state[tasks[k].uid].texts)
                      /\ tasks[k].uid \notin DOMAIN state'
                      /\ tasks'[k].answer[1] = "Saved"
                 ELSE /\ log' = log /\ state' = state
                      /\ tasks'[k].answer = NoPendingReply
         ]_vars
    /\ [](\A u \in AsyncUsers :
             /\ Len(log) = Cardinality(SavedCloses(u))
             /\ Cardinality(SavedCloses(u)) + Cardinality(Discards(u))
                    + (IF u \in DOMAIN state THEN 1 ELSE 0)
                  <= Cardinality(Joined(u))
             /\ \A i \in 1..Len(tasks), j \in 1..Len(tasks) :
                   (/\ i # j /\ IsClose(i) /\ IsClose(j) /\ Ran(i) /\ Ran(j)
                    /\ Cardinality(Joined(u)) = 1 /\ tasks[i].answer[1] = "Saved")
                       => tasks[j].answer = NoPendingReply)

\* C17's case: two closing messages are both waiting for their reply to be
\* sent; the first wrote the record, the second was told 'no pending entry'.
C17_Witness ==
    /\ Len(tasks) = 3
    /\ IsClose(2) /\ IsClose(3)
    /\ tasks[2].pc = "reply" /\ tasks[3].pc = "reply"
    /\ tasks[2].answer[1] = "Saved"
    /\ tasks[3].answer = NoPendingReply
    /\ Len(log) = 1

\* The item update k brings: the trimmed text, or the path of the photo.
LineOfTask(k) == Trimmed(tasks[k].raw)

\* The places of `line` in a description: where a line of it starts that is
\* `line`.
LinePlaces(description, line) ==
    IF line = <<>> THEN {}
    ELSE {p \in 1..Len(description) :
            /\ p + Len(line) - 1 <= Len(description)
            /\ SubSeq(description, p, p + Len(line) - 1) = line
            /\ p = 1 \/ description[p - 1] = "NL"
            /\ p + Len(line) - 1 = Len(description) \/ description[p + Len(line)] = "NL"}

\* Where the item of update k is: in the pending entry of its user, in
\* records of the log, in entries that were discarded.
PlacesOf(k) ==
    LET u == tasks[k].uid
        IsIn(e) == IF tasks[k].kind = "photo"
                   THEN {i \in 1..Len(e.images) : e.images[i] = tasks[k].fpath}
                   ELSE {i \in 1..Len(e.texts) : e.texts[i] = LineOfTask(k)}
    IN  (IF u \in DOMAIN state THEN {<<"pending", i>> : i \in IsIn(state[u])} ELSE {})
        \cup UNION { IF tasks[k].kind = "photo"
                     THEN {<<"record", r, i>> :
                             i \in {i \in 1..Len(log[r].images) :
                                       log[r].images[i] = tasks[k].fpath}}
                     ELSE {<<"record", r, p>> :
                             p \in LinePlaces(log[r].description, LineOfTask(k))}
                   : r \in 1..Len(log) }
        \cup UNION { {<<"discarded", d, i>> : i \in IsIn(tasks[d].pe[1])}
                   : d \in {d \in 1..Len(tasks) : tasks[d].pe # <<>>} }

\* The user has the answer to the text or photo of update k.
Acknowledged(k) == IsItem(k) /\ tasks[k].pc = "done"

\* The pending entry, the records and the discarded entries the item of
\* update k is in.
HoldersOf(k) == {SubSeq(place, 1, Len(place) - 1) : place \in PlacesOf(k)}

\* C18 as stated: every text or photo that was acknowledged is, at every
\* moment, in exactly one of the pending entry of its user, one record of
\* the log, or a discarded entry.
C18_EveryItemInOnePlace ==
    \A k \in 1..Len(tasks) : Acknowledged(k) => Cardinality(HoldersOf(k)) = 1

\* C18, amended: every photo and every text that is not blank, once
\* acknowledged, is at every moment in exactly one place, once: the pending
\* entry of its user, one record of the log, or a discarded entry.  (A blank
\* text is acknowledged too, and is left out of the description a close
\* writes.)
C18_EveryItemButBlanksInOnePlace ==
    \A k \in 1..Len(tasks) :
        (Acknowledged(k) /\ (tasks[k].kind = "photo" \/ LineOfTask(k) # <<>>))
            => Cardinality(PlacesOf(k)) = 1

\* C18's case: a photo was in its download while a text and the closing
\* message after it were handled; the record has the text, and the photo,
\* acknowledged, is in the entry that was opened for it.
C18_Witness ==
    /\ Len(tasks) = 3
    /\ tasks[1].kind = "photo" /\ tasks[1].pc = "done"
    /\ tasks[2].kind = "text" /\ LineOfTask(2) # <<>> /\ IsClose(3)
    /\ Len(log) = 1
    /\ log[1].description = LineOfTask(2) /\ log[1].images = <<>>
    /\ \E u \in DOMAIN state : state[u].images = <<tasks[1].fpath>> /\ state[u].texts = <<>>

====
